---------------------------- MODULE Spec2Model ----------------------------
(***************************************************************************)
(* A model of the IPv4 service of src/app.py: the address parser, the mask *)
(* and range arithmetic, the classifiers, the /api/ip-info,                *)
(* /api/subnetting and /api/history handlers and the bounded history.      *)
(*                                                                         *)
(* Representation.                                                         *)
(*  - A text (a Python str) is a sequence of one-character strings.        *)
(*  - Octets, prefixes and subnet counts are plain integers.               *)
(*  - A Python int that may reach 2^32 (addresses, masks, host counts) is  *)
(*    the set of the positions of its 1-bits ("wide" integer):             *)
(*    5 = {0, 2}, 0 = {}, 0xFFFFFFFF = 0..31, 2^32 = {32}.  Python's ints  *)
(*    are unbounded, and so is this representation; & is intersection,     *)
(*    | is union, << and >> move the positions.                            *)
(*  - The dotted text int_to_ip produces is kept as the list of its four   *)
(*    decimal numbers, and "a.b.c.d/p" as the pair of that list and p.     *)
(***************************************************************************)
EXTENDS Integers, Sequences, FiniteSets, TLC

VARIABLES
  request,          \* the request being served (its JSON fields)
  pc,               \* "pending": request not yet handled; "done": response sent
  response,         \* the response to the last handled request
  locals,           \* the handler's local variables when it returned
  history_storage,  \* the deque of app.py:13
  now,              \* what the next datetime.now() returns
  successes         \* history entries of all successful ip-info computations

vars == <<request, pc, response, locals, history_storage, now, successes>>

----------------------------------------------------------------------------
(* Wide integers: Python int arithmetic on sets of bit positions.          *)

SetMax(S) == CHOOSE x \in S : \A y \in S : y <= x

Zero == {}

\* 0xFFFFFFFF
AllOnes32 == 0..31

\* 0xFF
AllOnes8 == 0..7

\* A small natural number (below 2^31) as a wide integer.
Wide(n) == { i \in 0..30 : (n \div (2^i)) % 2 = 1 }

RECURSIVE SumPow(_)
SumPow(S) == IF S = {} THEN 0
             ELSE LET i == SetMax(S) IN 2^i + SumPow(S \ {i})

\* A wide integer below 2^31 as a plain integer.
Narrow(w) == SumPow(w)

BitAnd(a, b) == a \cap b

BitOr(a, b) == a \cup b

BitXor(a, b) == (a \ b) \cup (b \ a)

Shl(a, k) == { i + k : i \in a }

Shr(a, k) == { i - k : i \in { j \in a : j >= k } }

\* (~a) & 0xFFFFFFFF: ~a has exactly the bits a lacks (two's complement,
\* sign-extended), of which the low 32 are kept.
Not32(a) == AllOnes32 \ a

RECURSIVE WAdd(_, _)
WAdd(a, b) == IF b = {} THEN a ELSE WAdd(BitXor(a, b), Shl(BitAnd(a, b), 1))

\* a - b for a >= b.
RECURSIVE WSub(_, _)
WSub(a, b) == IF b = {} THEN a ELSE WSub(BitXor(a, b), Shl(b \ a, 1))

RECURSIVE WMul(_, _)
WMul(a, b) == IF b = {} THEN {}
              ELSE LET i == SetMax(b) IN WAdd(Shl(a, i), WMul(a, b \ {i}))

WLt(a, b) == a # b /\ SetMax(BitXor(a, b)) \in b

WLe(a, b) == a = b \/ WLt(a, b)

\* int(math.pow(2, k)) for 0 <= k <= 32: exact in floating point.
Pow2(k) == {k}

\* max(a - b, 0)
SubFloor0(a, b) == IF WLt(a, b) THEN Zero ELSE WSub(a, b)

----------------------------------------------------------------------------
(* Texts: str.strip, str.split, the "in" test, int(str), str(int).         *)

Digits == {"0", "1", "2", "3", "4", "5", "6", "7", "8", "9"}

Whitespace == {" "}

DigitVal(c) ==
  CASE c = "0" -> 0 [] c = "1" -> 1 [] c = "2" -> 2 [] c = "3" -> 3
    [] c = "4" -> 4 [] c = "5" -> 5 [] c = "6" -> 6 [] c = "7" -> 7
    [] c = "8" -> 8 [] c = "9" -> 9

DigitChar(d) ==
  CASE d = 0 -> "0" [] d = 1 -> "1" [] d = 2 -> "2" [] d = 3 -> "3"
    [] d = 4 -> "4" [] d = 5 -> "5" [] d = 6 -> "6" [] d = 7 -> "7"
    [] d = 8 -> "8" [] d = 9 -> "9"

\* str(n) for n >= 0.
RECURSIVE Str(_)
Str(n) == IF n < 10 THEN <<DigitChar(n)>>
          ELSE Str(n \div 10) \o <<DigitChar(n % 10)>>

RECURSIVE LStrip(_)
LStrip(s) == IF s # <<>> /\ Head(s) \in Whitespace THEN LStrip(Tail(s)) ELSE s

RECURSIVE RStrip(_)
RStrip(s) == IF s # <<>> /\ s[Len(s)] \in Whitespace
             THEN RStrip(SubSeq(s, 1, Len(s) - 1)) ELSE s

\* s.strip()
Strip(s) == RStrip(LStrip(s))

\* sep in s
Contains(s, sep) == \E i \in 1..Len(s) : s[i] = sep

\* s.split(sep): the pieces between the separators, empty pieces kept.
RECURSIVE Split(_, _)
Split(s, sep) ==
  IF ~Contains(s, sep) THEN <<s>>
  ELSE LET i == CHOOSE k \in 1..Len(s) :
                  s[k] = sep /\ \A j \in 1..(k - 1) : s[j] # sep
       IN <<SubSeq(s, 1, i - 1)>> \o Split(SubSeq(s, i + 1, Len(s)), sep)

\* sep.join(parts)
RECURSIVE Join(_, _)
Join(parts, sep) ==
  IF parts = <<>> THEN <<>>
  ELSE IF Len(parts) = 1 THEN parts[1]
  ELSE parts[1] \o <<sep>> \o Join(Tail(parts), sep)

\* The decimal value of a text of digits and underscores, left to right.
RECURSIVE DecimalValue(_, _)
DecimalValue(s, acc) ==
  IF s = <<>> THEN acc
  ELSE IF Head(s) = "_" THEN DecimalValue(Tail(s), acc)
  ELSE DecimalValue(Tail(s), 10 * acc + DigitVal(Head(s)))

\* What int() accepts after the sign: digits, with single underscores
\* allowed between two digits.
IntLiteralBody(b) ==
  /\ b # <<>>
  /\ \A i \in 1..Len(b) : b[i] \in Digits \cup {"_"}
  /\ b[1] \in Digits
  /\ b[Len(b)] \in Digits
  /\ \A i \in 1..(Len(b) - 1) : ~(b[i] = "_" /\ b[i + 1] = "_")

\* int(s) in base 10: surrounding whitespace is dropped, one sign is
\* allowed; anything else raises ValueError (ok = FALSE).
PyInt(s) ==
  LET t == Strip(s)
      signed == t # <<>> /\ Head(t) \in {"+", "-"}
      body == IF signed THEN Tail(t) ELSE t
  IN IF ~IntLiteralBody(body) THEN [ok |-> FALSE, val |-> 0]
     ELSE [ok |-> TRUE,
           val |-> IF signed /\ Head(t) = "-"
                   THEN 0 - DecimalValue(body, 0) ELSE DecimalValue(body, 0)]

----------------------------------------------------------------------------
(* The address engine.                                                     *)

Ok(v) == [ok |-> TRUE, value |-> v]

\* A raised ValueError(msg); args are the values formatted into msg.
ValueError(msg, args) == [ok |-> FALSE, error |-> [msg |-> msg, args |-> args]]

\* A faulty range test: 256 passes.
OctetOutOfRange_Accepts256(o) == o < 0 \/ o > 256

\* o < 0 or o > 255
OctetOutOfRange(o) == o < 0 \/ o > 255

parse_ipv4(ip_str) ==
  LET parts == Split(ip_str, ".")
      ints == [i \in 1..Len(parts) |-> PyInt(parts[i])]
      octets == [i \in 1..Len(parts) |-> ints[i].val]
  IN IF \E i \in 1..Len(parts) : ~ints[i].ok
     THEN ValueError("IPv4 address must contain only digits and dots.", <<>>)
     ELSE IF Len(octets) # 4
     THEN ValueError("IPv4 address must have exactly 4 octets.", <<>>)
     ELSE IF \E i \in 1..4 : OctetOutOfRange(octets[i])
     THEN ValueError("Octet {i} must be between 0 and 255.",
                     << CHOOSE i \in 1..4 :
                          /\ OctetOutOfRange(octets[i])
                          /\ \A j \in 1..(i - 1) : ~OctetOutOfRange(octets[j]) >>)
     ELSE Ok(octets)

RECURSIVE PackOctets(_, _)
PackOctets(octets, value) ==
  IF octets = <<>> THEN value
  ELSE PackOctets(Tail(octets), BitOr(Shl(value, 8), Wide(Head(octets))))

octets_to_int(octets) == PackOctets(octets, Zero)

int_to_octets(value) ==
  << Narrow(BitAnd(Shr(value, 24), AllOnes8)),
     Narrow(BitAnd(Shr(value, 16), AllOnes8)),
     Narrow(BitAnd(Shr(value, 8), AllOnes8)),
     Narrow(BitAnd(value, AllOnes8)) >>

\* The dotted text, kept as the list of its four numbers.
int_to_ip(value) == int_to_octets(value)

\* f"{int_to_ip(value)}/{prefix}"
Cidr(value, prefix) == <<int_to_ip(value), prefix>>

detect_class(first_octet) ==
  IF 1 <= first_octet /\ first_octet <= 126 THEN "Class A"
  ELSE IF 128 <= first_octet /\ first_octet <= 191 THEN "Class B"
  ELSE IF 192 <= first_octet /\ first_octet <= 223 THEN "Class C"
  ELSE IF 224 <= first_octet /\ first_octet <= 239 THEN "Class D (Multicast)"
  ELSE IF 240 <= first_octet /\ first_octet <= 254 THEN "Class E (Experimental)"
  ELSE IF first_octet = 127 THEN "Loopback"
  ELSE "Unknown"

detect_network_type(octets) ==
  LET a == octets[1]
      b == octets[2]
  IN IF a = 10 THEN "Private (10.0.0.0/8)"
     ELSE IF a = 172 /\ 16 <= b /\ b <= 31 THEN "Private (172.16.0.0/12)"
     ELSE IF a = 192 /\ b = 168 THEN "Private (192.168.0.0/16)"
     ELSE IF a = 127 THEN "Loopback"
     ELSE IF a = 169 /\ b = 254 THEN "Link-local (APIPA)"
     ELSE IF a = 0 THEN "Software / Current network"
     ELSE IF 224 <= a /\ a <= 239 THEN "Multicast"
     ELSE IF 240 <= a /\ a <= 255 THEN "Reserved / Experimental"
     ELSE "Public"

\* A faulty mask: the shift is one short.
mask_from_prefix_ShortShift(prefix) ==
  IF prefix = 0 THEN Zero
  ELSE BitAnd(Shl(AllOnes32, 31 - prefix), AllOnes32)

mask_from_prefix(prefix) ==
  IF prefix = 0 THEN Zero
  ELSE BitAnd(Shl(AllOnes32, 32 - prefix), AllOnes32)

----------------------------------------------------------------------------
(* Responses.  None is the empty sequence; an optional wide integer is     *)
(* None or <<w>>, an optional dotted text is None or its four numbers.     *)

None == <<>>

Some(w) == <<w>>

\* Python's truth test of an optional integer: None and 0 are false.
Truthy(opt) == opt # None /\ opt[1] # Zero

\* jsonify(body) with status 200
Json200(body) == [status |-> 200, body |-> body]

\* jsonify({"error": ...}), 400
Json400(msg, args) == [status |-> 400, body |-> [error |-> [msg |-> msg, args |-> args]]]

NoLocals == [handler |-> "none"]

NoResponse == [status |-> 0, body |-> [none |-> TRUE]]

NoRequest == [op |-> "none"]

----------------------------------------------------------------------------
(* POST /api/ip-info                                                       *)

\* A faulty host_min: the network address itself.
host_min_of_NoIncrement(network_int) == network_int

\* host_min_int = network_int + 1
host_min_of(network_int) == WAdd(network_int, Wide(1))

\* host_max_int = broadcast_int - 1
host_max_of(broadcast_int) == WSub(broadcast_int, Wide(1))

\* total_hosts = 1 if prefix == 32 else int(math.pow(2, 32 - prefix))
total_hosts_of(prefix) == IF prefix = 32 THEN Wide(1) ELSE Pow2(32 - prefix)

\* The handler's locals from the parsed octets on (lines 131-153).
ip_info_locals(octets, prefix) ==
  LET ip_int == octets_to_int(octets)
      mask_int == mask_from_prefix(prefix)
      wildcard_int == Not32(mask_int)
      network_int == BitAnd(ip_int, mask_int)
      broadcast_int == BitOr(network_int, wildcard_int)
      total_hosts == total_hosts_of(prefix)
      usable_hosts == IF prefix <= 30 THEN SubFloor0(total_hosts, Wide(2))
                      ELSE Zero
      has_range == prefix <= 30 /\ WLt(Zero, usable_hosts)
  IN [handler |-> "ip_info",
      ip_int |-> ip_int,
      ip_class |-> detect_class(octets[1]),
      network_type |-> detect_network_type(octets),
      mask_int |-> mask_int,
      wildcard_int |-> wildcard_int,
      network_int |-> network_int,
      broadcast_int |-> broadcast_int,
      host_min_int |-> IF has_range THEN Some(host_min_of(network_int)) ELSE None,
      host_max_int |-> IF has_range THEN Some(host_max_of(broadcast_int)) ELSE None,
      total_hosts |-> total_hosts,
      usable_hosts |-> usable_hosts]

\* The response dictionary (lines 155-170).
ip_info_body(ip_str, prefix, octets, l, timestamp) ==
  [ip |-> ip_str,
   prefix |-> prefix,
   octets |-> octets,
   ip_class |-> l.ip_class,
   network_type |-> l.network_type,
   subnet_mask |-> int_to_ip(l.mask_int),
   wildcard_mask |-> int_to_ip(l.wildcard_int),
   network_id |-> Cidr(l.network_int, prefix),
   broadcast |-> int_to_ip(l.broadcast_int),
   host_min |-> IF l.host_min_int # None THEN int_to_ip(l.host_min_int[1]) ELSE None,
   host_max |-> IF l.host_max_int # None THEN int_to_ip(l.host_max_int[1]) ELSE None,
   total_hosts |-> l.total_hosts,
   usable_hosts |-> l.usable_hosts,
   timestamp |-> timestamp]

\* history_entry (lines 173-180)
history_entry(ip_str, prefix, l, body) ==
  [ip |-> ip_str,
   prefix |-> prefix,
   ip_class |-> l.ip_class,
   network_type |-> l.network_type,
   network_id |-> body.network_id,
   timestamp |-> body.timestamp]

\* The handler: its response, its locals, and the entries it appends to the
\* history (none or one).  clock is what datetime.now() returns.
ip_info_handler(data, clock) ==
  LET ip_str == Strip(data.ip)
      prefix == data.prefix
      parsed == parse_ipv4(ip_str)
  IN IF ip_str = <<>>
     THEN [response |-> Json400("IP address is required.", <<>>),
           locals |-> NoLocals, appended |-> <<>>]
     ELSE IF prefix < 0 \/ prefix > 32
     THEN [response |-> Json400("Prefix must be between 0 and 32.", <<>>),
           locals |-> NoLocals, appended |-> <<>>]
     ELSE IF ~parsed.ok
     THEN [response |-> Json400(parsed.error.msg, parsed.error.args),
           locals |-> NoLocals, appended |-> <<>>]
     ELSE LET l == ip_info_locals(parsed.value, prefix)
              body == ip_info_body(ip_str, prefix, parsed.value, l, clock)
          IN [response |-> Json200(body),
              locals |-> l,
              appended |-> <<history_entry(ip_str, prefix, l, body)>>]

\* The capacity of history_storage.
HistoryMaxLen == 100

\* A faulty append: nothing is ever evicted.
deque_append_Unbounded(dq, x) == Append(dq, x)

\* deque(maxlen=100).append(x): a full deque drops its oldest element.
deque_append(dq, x) ==
  IF Len(dq) >= HistoryMaxLen THEN Append(Tail(dq), x) ELSE Append(dq, x)

RECURSIVE Reverse(_)
Reverse(s) == IF s = <<>> THEN <<>> ELSE Append(Reverse(Tail(s)), Head(s))

\* The history entry a successful ip-info response describes.
EntryOfResponse(body) ==
  [ip |-> body.ip, prefix |-> body.prefix, ip_class |-> body.ip_class,
   network_type |-> body.network_type, network_id |-> body.network_id,
   timestamp |-> body.timestamp]

----------------------------------------------------------------------------
(* POST /api/subnetting                                                    *)

\* A faulty bit count: the logarithm rounded down.
RECURSIVE bits_needed_of_RoundedDown(_)
bits_needed_of_RoundedDown(n) ==
  IF n <= 1 THEN 0 ELSE 1 + bits_needed_of_RoundedDown(n \div 2)

\* math.ceil(math.log2(n)) for n >= 1.  The floating-point logarithm is exact
\* at the powers of two and strictly between them elsewhere for n < 2^49, so
\* the result is one more than that of the next-smaller half, rounded up.
RECURSIVE bits_needed_of(_)
bits_needed_of(n) ==
  IF n <= 1 THEN 0 ELSE 1 + bits_needed_of((n + 1) \div 2)

\* A faulty space test: a new prefix of 32 is refused too.
exceeds_space_At32(new_prefix) == new_prefix >= 32

\* new_prefix > 32
exceeds_space(new_prefix) == new_prefix > 32

\* A faulty trip count: all 2^bits_needed subnets.
loop_count_AllSubnets(subnets_needed, bits_needed) == 2^bits_needed

\* min(subnets_needed, int(math.pow(2, bits_needed)))
loop_count(subnets_needed, bits_needed) ==
  IF subnets_needed <= 2^bits_needed THEN subnets_needed ELSE 2^bits_needed

\* A faulty broadcast: one address too far.
subnet_broadcast_of_OnePastEnd(subnet_network, subnet_size) ==
  WAdd(subnet_network, subnet_size)

\* subnet_broadcast = subnet_network + subnet_size - 1
subnet_broadcast_of(subnet_network, subnet_size) ==
  WSub(WAdd(subnet_network, subnet_size), Wide(1))

\* The record the loop appends in iteration i (i = 0, 1, ...; lines 241-255).
subnet_record(l, i) ==
  LET subnet_network == WAdd(l.network_int, WMul(Wide(i), l.subnet_size))
      subnet_broadcast == subnet_broadcast_of(subnet_network, l.subnet_size)
      host_min == IF l.new_prefix <= 30
                  THEN Some(WAdd(subnet_network, Wide(1))) ELSE None
      host_max == IF l.new_prefix <= 30
                  THEN Some(WSub(subnet_broadcast, Wide(1))) ELSE None
  IN [subnet_number |-> i + 1,
      network |-> Cidr(subnet_network, l.new_prefix),
      broadcast |-> int_to_ip(subnet_broadcast),
      host_min |-> IF Truthy(host_min) THEN int_to_ip(host_min[1]) ELSE None,
      host_max |-> IF Truthy(host_max) THEN int_to_ip(host_max[1]) ELSE None,
      total_hosts |-> l.hosts_per_subnet,
      usable_hosts |-> l.usable_per_subnet]

\* The handler: its response and its locals.  The list response["subnets"]
\* is not stored: it has total_subnets_created records, the k-th of which is
\* subnet_record(locals, k - 1) (see Subnets below).
subnetting_handler(data) ==
  LET network_str == Strip(data.network)
      subnets_needed == data.subnets
      pieces == Split(network_str, "/")
      ip_part == pieces[1]
      prefix_int == PyInt(pieces[2])
      prefix == prefix_int.val
      parsed == parse_ipv4(ip_part)
      network_int == BitAnd(octets_to_int(parsed.value), mask_from_prefix(prefix))
      bits_needed == bits_needed_of(subnets_needed)
      new_prefix == prefix + bits_needed
      hosts_per_subnet == Pow2(32 - new_prefix)
      l == [handler |-> "subnetting",
            prefix |-> prefix,
            network_int |-> network_int,
            bits_needed |-> bits_needed,
            new_prefix |-> new_prefix,
            hosts_per_subnet |-> hosts_per_subnet,
            usable_per_subnet |-> IF new_prefix <= 30
                                  THEN SubFloor0(hosts_per_subnet, Wide(2))
                                  ELSE Zero,
            subnet_size |-> Pow2(32 - new_prefix)]
  IN IF network_str = <<>> \/ ~Contains(network_str, "/")
     THEN [response |-> Json400("Network must be in CIDR format (e.g., 192.168.1.0/24)", <<>>),
           locals |-> NoLocals]
     ELSE IF Len(pieces) # 2
     THEN [response |-> Json400("too many values to unpack (expected 2)", <<>>),
           locals |-> NoLocals]
     ELSE IF ~prefix_int.ok
     THEN [response |-> Json400("invalid literal for int() with base 10", <<>>),
           locals |-> NoLocals]
     ELSE IF prefix < 0 \/ prefix > 32
     THEN [response |-> Json400("Prefix must be between 0 and 32.", <<>>),
           locals |-> NoLocals]
     ELSE IF subnets_needed < 1
     THEN [response |-> Json400("Number of subnets must be at least 1.", <<>>),
           locals |-> NoLocals]
     ELSE IF ~parsed.ok
     THEN [response |-> Json400(parsed.error.msg, parsed.error.args),
           locals |-> NoLocals]
     ELSE IF exceeds_space(new_prefix)
     THEN [response |-> Json400("Cannot create {subnets_needed} subnets with /{prefix} network.",
                                <<subnets_needed, prefix>>),
           locals |-> [handler |-> "subnetting",
                       prefix |-> prefix,
                       network_int |-> network_int,
                       bits_needed |-> bits_needed,
                       new_prefix |-> new_prefix]]
     ELSE [response |-> Json200(
                          [original_network |-> Cidr(network_int, prefix),
                           subnets_needed |-> subnets_needed,
                           bits_borrowed |-> bits_needed,
                           new_prefix |-> new_prefix,
                           total_subnets_created |-> loop_count(subnets_needed, bits_needed)]),
           locals |-> l]

----------------------------------------------------------------------------
(* The handlers as actions.                                                *)

\* ip_info(): the response, the history append, the clock read.
ip_info ==
  /\ pc = "pending"
  /\ request.op = "ip_info"
  /\ LET r == ip_info_handler(request, now)
     IN /\ response' = r.response
        /\ locals' = r.locals
        /\ history_storage' = IF r.appended # <<>>
                              THEN deque_append(history_storage, r.appended[1])
                              ELSE history_storage
        /\ now' = IF r.response.status = 200 THEN now + 1 ELSE now
        /\ successes' = IF r.response.status = 200
                        THEN Append(successes, EntryOfResponse(r.response.body))
                        ELSE successes
  /\ pc' = "done"
  /\ UNCHANGED request

\* subnetting()
subnetting ==
  /\ pc = "pending"
  /\ request.op = "subnetting"
  /\ LET r == subnetting_handler(request)
     IN /\ response' = r.response
        /\ locals' = r.locals
  /\ pc' = "done"
  /\ UNCHANGED <<request, history_storage, now, successes>>

\* get_history()
get_history ==
  /\ pc = "pending"
  /\ request.op = "history"
  /\ LET history_list == Reverse(history_storage)
     IN response' = Json200([history |-> history_list, count |-> Len(history_list)])
  /\ locals' = NoLocals
  /\ pc' = "done"
  /\ UNCHANGED <<request, history_storage, now, successes>>

\* A direct call of parse_ipv4(request.ip).
parse_call ==
  /\ pc = "pending"
  /\ request.op = "parse"
  /\ response' = parse_ipv4(request.ip)
  /\ locals' = NoLocals
  /\ pc' = "done"
  /\ UNCHANGED <<request, history_storage, now, successes>>

\* response["subnets"] of a successful subnetting response.
Subnets ==
  [k \in 1..response.body.total_subnets_created |-> subnet_record(locals, k - 1)]

----------------------------------------------------------------------------
(* Inputs.                                                                 *)

\* The text of an integer.
IntText(n) == IF n < 0 THEN <<"-">> \o Str(0 - n) ELSE Str(n)

\* "a.b.c.d" of four numbers.
Dotted(octets) == Join([i \in 1..Len(octets) |-> Str(octets[i])], ".")

\* "a.b.c.d/p"
CidrText(octets, prefix) == Dotted(octets) \o <<"/">> \o IntText(prefix)

\* The segments the parser's inputs are built from: in range, at and past
\* the upper limit, with leading zeros, signed, empty, blank, padded, with
\* an underscore.
Segments ==
  { <<"1">>, <<"2", "5", "5">>, <<"2", "5", "6">>, <<"0", "1", "0">>,
    <<"-", "1">>, <<"+", "1">>, <<>>, <<" ">>, <<" ", "7">>, <<"1", "_", "0">> }

\* Only ASCII digits, and at least one.
DigitString(seg) == seg # <<>> /\ \A i \in 1..Len(seg) : seg[i] \in Digits

\* The most segments an input of the parser has.
MaxSegments == 5

\* Texts of 1..MaxSegments segments, all "1" but for up to two of them.
ParseInputs ==
  UNION { { Join([[k \in 1..n |-> <<"1">>] EXCEPT ![i] = s1, ![j] = s2], ".") :
              i \in 1..n, j \in 1..n, s1 \in Segments, s2 \in Segments } :
          n \in 1..MaxSegments }

Addresses ==
  { <<192, 168, 1, 10>>, <<10, 0, 0, 1>>, <<0, 0, 0, 0>>, <<255, 255, 255, 255>>,
    <<172, 16, 5, 4>>, <<127, 0, 0, 1>>, <<169, 254, 1, 1>>, <<224, 0, 0, 5>>,
    <<8, 8, 8, 8>>, <<128, 1, 2, 3>>, <<1, 2, 3, 254>> }

InfoTexts ==
  { Dotted(a) : a \in Addresses }
    \cup { <<>>, <<" ">>, Dotted(<<256, 1, 1, 1>>), Dotted(<<1, 2, 3>>),
           <<" ">> \o Dotted(<<10, 0, 0, 1>>) \o <<" ">> }

InfoRequests ==
  { [op |-> "ip_info", ip |-> t, prefix |-> p] : t \in InfoTexts, p \in (0 - 1)..33 }

Networks ==
  { <<192, 168, 1, 0>>, <<10, 0, 0, 0>>, <<0, 0, 0, 0>>, <<255, 255, 255, 255>>,
    <<10, 1, 2, 3>> }

NetworkTexts ==
  { CidrText(a, p) : a \in Networks, p \in (0 - 1)..33 }
    \cup { <<>>, Dotted(<<10, 0, 0, 0>>), CidrText(<<10, 0, 0, 0>>, 8) \o <<"/", "1">>,
           Dotted(<<10, 0, 0, 0>>) \o <<"/", "x">>, CidrText(<<256, 0, 0, 0>>, 8) }

\* The largest subnet count of a partition whose records are all examined.
MaxSubnets == 9

PartitionRequests ==
  { [op |-> "subnetting", network |-> t, subnets |-> n] :
      t \in NetworkTexts, n \in 0..MaxSubnets }

\* Subnet counts around 2^24.
LargeCounts == { 2^24 - 1, 2^24, 2^24 + 1, 2^25, 2^30 }

LargeRequests ==
  { [op |-> "subnetting", network |-> CidrText(a, p), subnets |-> n] :
      a \in { <<0, 0, 0, 0>>, <<10, 0, 0, 0>> }, p \in 0..32, n \in LargeCounts }

\* The requests of a long-running service: one valid address query, the
\* three kinds of refused ones, two partitions and the history query.
ServiceRequests ==
  { [op |-> "ip_info", ip |-> Dotted(<<10, 0, 0, 1>>), prefix |-> 24],
    [op |-> "ip_info", ip |-> <<" ">>, prefix |-> 24],
    [op |-> "ip_info", ip |-> Dotted(<<10, 0, 0, 1>>), prefix |-> 33],
    [op |-> "ip_info", ip |-> Dotted(<<256, 1, 1, 1>>), prefix |-> 24],
    [op |-> "subnetting", network |-> CidrText(<<10, 0, 0, 0>>, 30), subnets |-> 2],
    [op |-> "subnetting", network |-> CidrText(<<10, 0, 0, 0>>, 30), subnets |-> 8],
    [op |-> "history"] }

\* The most successful address queries of a run of the service.
MaxSuccesses == 103

----------------------------------------------------------------------------
(* Specifications.                                                         *)

Fresh ==
  /\ response = NoResponse
  /\ locals = NoLocals
  /\ history_storage = <<>>
  /\ now = 0
  /\ successes = <<>>

\* The next request arrives.
Receive ==
  /\ pc = "done"
  /\ Len(successes) < MaxSuccesses
  /\ request' \in ServiceRequests
  /\ pc' = "pending"
  /\ UNCHANGED <<response, locals, history_storage, now, successes>>

Init == Fresh /\ request = NoRequest /\ pc = "done"

Next == Receive \/ ip_info \/ subnetting \/ get_history

\* The service: requests arrive one after the other.
Spec == Init /\ [][Next]_vars

InitParse ==
  Fresh /\ request \in { [op |-> "parse", ip |-> t] : t \in ParseInputs } /\ pc = "pending"

\* One call of parse_ipv4.
SpecParse == InitParse /\ [][parse_call]_vars

InitInfo == Fresh /\ request \in InfoRequests /\ pc = "pending"

\* One address query.
SpecInfo == InitInfo /\ [][ip_info]_vars

InitPartition == Fresh /\ request \in PartitionRequests /\ pc = "pending"

\* One partition of a few subnets.
SpecPartition == InitPartition /\ [][subnetting]_vars

InitLarge == Fresh /\ request \in LargeRequests /\ pc = "pending"

\* One partition of very many subnets.
SpecLarge == InitLarge /\ [][subnetting]_vars

----------------------------------------------------------------------------
(* Vocabulary of the properties.                                           *)

\* The 32-bit value whose top p bits are set.
TopBits(p) == { i \in 0..31 : i >= 32 - p }

\* The 32-bit value whose low n bits are set.
LowBits(n) == { i \in 0..31 : i < n }

IsPowerOfTwo(n) == \E b \in 0..30 : n = 2^b

Handled(op) == pc = "done" /\ request.op = op

PartitionSucceeded == Handled("subnetting") /\ response.status = 200

ExceedsSpaceError ==
  /\ response.status = 400
  /\ response.body.error.msg
       = "Cannot create {subnets_needed} subnets with /{prefix} network."

\* The network text of the request names a network: "a.b.c.d/p" with four
\* octets in range and p in 0..32.
ValidNetworkText(t) ==
  LET pieces == Split(Strip(t), "/")
  IN /\ Len(pieces) = 2
     /\ PyInt(pieces[2]).ok
     /\ PyInt(pieces[2]).val \in 0..32
     /\ parse_ipv4(pieces[1]).ok

\* First and last address of the k-th returned subnet.
SubnetFirst(k) == octets_to_int(Subnets[k].network[1])

SubnetLast(k) == octets_to_int(Subnets[k].broadcast)

----------------------------------------------------------------------------
(* C1: in every successful partition the address ranges [network,          *)
(* broadcast] of two distinct returned subnets do not intersect, and when  *)
(* subnets_needed is a power of two the ranges, taken in order, start at   *)
(* the original network's first address, follow one another without a gap  *)
(* and end at its broadcast address: their union is the original range.    *)
C1_DisjointAndExhaustive ==
  PartitionSucceeded =>
    LET N == response.body.total_subnets_created
        first == locals.network_int
        last == BitOr(first, LowBits(32 - locals.prefix))
    IN /\ BitAnd(first, LowBits(32 - locals.prefix)) = Zero
       /\ \A k \in 1..N : WLe(SubnetFirst(k), SubnetLast(k))
       /\ \A i, j \in 1..N :
            i # j => \/ WLt(SubnetLast(i), SubnetFirst(j))
                     \/ WLt(SubnetLast(j), SubnetFirst(i))
       /\ IsPowerOfTwo(request.subnets) =>
            /\ SubnetFirst(1) = first
            /\ SubnetLast(N) = last
            /\ \A k \in 1..(N - 1) :
                 SubnetFirst(k + 1) = WAdd(SubnetLast(k), Wide(1))

\* A /24 split into four /26 subnets has been answered.
C1_Witness ==
  /\ PartitionSucceeded
  /\ request.subnets = 4
  /\ locals.prefix = 24
  /\ response.body.total_subnets_created = 4
  /\ Subnets[4].network = <<<<192, 168, 1, 192>>, 26>>

(* C2: a successful partition returns min(subnets_needed, 2^bits_needed)   *)
(* records numbered 1..N in ascending address order; record i has network  *)
(* original_network + (i-1) * 2^(32 - new_prefix) and the broadcast, host  *)
(* range and host counts of the mask arithmetic at new_prefix.             *)
C2_SubnetRecords ==
  PartitionSucceeded =>
    LET N == response.body.total_subnets_created
        n == request.subnets
        b == response.body.bits_borrowed
        np == response.body.new_prefix
        size == Shl(Wide(1), 32 - np)
        total == IF np = 32 THEN Wide(1) ELSE size
        usable == IF np <= 30 THEN WSub(total, Wide(2)) ELSE Zero
        net(k) == WAdd(locals.network_int, WMul(Wide(k - 1), size))
        bcast(k) == BitOr(net(k), LowBits(32 - np))
    IN /\ N = (IF n <= 2^b THEN n ELSE 2^b)
       /\ response.body.original_network = Cidr(locals.network_int, locals.prefix)
       /\ \A k \in 1..N :
            /\ Subnets[k].subnet_number = k
            /\ Subnets[k].network = <<int_to_octets(net(k)), np>>
            /\ Subnets[k].broadcast = int_to_octets(bcast(k))
            /\ Subnets[k].total_hosts = total
            /\ Subnets[k].usable_hosts = usable
            /\ Subnets[k].host_min
                 = IF usable # Zero THEN int_to_octets(WAdd(net(k), Wide(1))) ELSE None
            /\ Subnets[k].host_max
                 = IF usable # Zero THEN int_to_octets(WSub(bcast(k), Wide(1))) ELSE None
       /\ \A k \in 1..(N - 1) : WLt(SubnetFirst(k), SubnetFirst(k + 1))

\* Three subnets were asked of a /24: two bits are borrowed, three records
\* are returned.
C2_Witness ==
  /\ PartitionSucceeded
  /\ request.subnets = 3
  /\ locals.prefix = 24
  /\ response.body.bits_borrowed = 2
  /\ response.body.total_subnets_created = 3
  /\ Subnets[3].host_max = <<192, 168, 1, 190>>

(* C3: for a valid network and subnets_needed >= 1, bits_needed is the     *)
(* smallest b >= 0 with 2^b >= subnets_needed, new_prefix is the original  *)
(* prefix plus bits_needed, and the request is refused with the            *)
(* exceeds-space error exactly when new_prefix > 32, in which case the     *)
(* response holds the error alone.                                         *)
C3_BitsAndSpace ==
  (Handled("subnetting") /\ ValidNetworkText(request.network) /\ request.subnets >= 1) =>
    LET n == request.subnets
        b == locals.bits_needed
        p == PyInt(Split(Strip(request.network), "/")[2]).val
    IN /\ locals.handler = "subnetting"
       /\ b >= 0
       /\ 2^b >= n
       /\ b > 0 => 2^(b - 1) < n
       /\ locals.prefix = p
       /\ locals.new_prefix = p + b
       /\ response.status \in {200, 400}
       /\ ExceedsSpaceError <=> locals.new_prefix > 32
       /\ response.status = 200 <=> locals.new_prefix <= 32
       /\ response.status = 400 => DOMAIN response.body = {"error"}
       /\ response.status = 200 =>
            /\ response.body.bits_borrowed = b
            /\ response.body.new_prefix = p + b

\* Five subnets of a /30 need three bits: refused.
C3_Witness ==
  /\ Handled("subnetting")
  /\ ValidNetworkText(request.network)
  /\ request.subnets = 5
  /\ locals.handler = "subnetting"
  /\ locals.prefix = 30
  /\ locals.bits_needed = 3
  /\ ExceedsSpaceError

TenSlash30 == CidrText(<<10, 0, 0, 0>>, 30)

(* C4 as stated: partition("10.0.0.0/30", 4) computes bits_borrowed 2 and  *)
(* new_prefix 32 and fails with the exceeds-space error, returning no      *)
(* subnets.                                                                *)
C4_AsStated ==
  (Handled("subnetting") /\ request.network = TenSlash30 /\ request.subnets = 4) =>
    /\ locals.bits_needed = 2
    /\ locals.new_prefix = 32
    /\ ExceedsSpaceError

(* C4 amended: partition("10.0.0.0/30", 4) computes bits_borrowed 2 and    *)
(* new_prefix 32 and succeeds: it returns the four /32 subnets 10.0.0.0 .. *)
(* 10.0.0.3, each of 1 address, 0 usable hosts and no host range.          *)
C4_FourSlash32 ==
  (Handled("subnetting") /\ request.network = TenSlash30 /\ request.subnets = 4) =>
    /\ response.status = 200
    /\ response.body.bits_borrowed = 2
    /\ response.body.new_prefix = 32
    /\ response.body.total_subnets_created = 4
    /\ \A k \in 1..4 :
         /\ Subnets[k].network = <<<<10, 0, 0, k - 1>>, 32>>
         /\ Subnets[k].broadcast = <<10, 0, 0, k - 1>>
         /\ Subnets[k].total_hosts = Wide(1)
         /\ Subnets[k].usable_hosts = Zero
         /\ Subnets[k].host_min = None
         /\ Subnets[k].host_max = None

\* That request has been answered.
C4_Witness ==
  /\ Handled("subnetting")
  /\ request.network = TenSlash30
  /\ request.subnets = 4
  /\ locals.handler = "subnetting"
  /\ locals.new_prefix = 32

\* The segments of the parsed text.
RequestSegments == Split(request.ip, ".")

FormatError ==
  /\ ~response.ok
  /\ response.error.msg = "IPv4 address must contain only digits and dots."

CountError ==
  /\ ~response.ok
  /\ response.error.msg = "IPv4 address must have exactly 4 octets."

RangeError(i) ==
  /\ ~response.ok
  /\ response.error.msg = "Octet {i} must be between 0 and 255."
  /\ response.error.args = <<i>>

(* C5: parse fails with the format error for every input in which some     *)
(* dot-separated segment is not composed solely of ASCII digits (signed,   *)
(* blank, padded with whitespace, empty): such a segment is never accepted *)
(* as an octet and never reported as a count or range error.               *)
C5_NonDigitSegmentIsFormatError ==
  (Handled("parse")
     /\ \E i \in 1..Len(RequestSegments) : ~DigitString(RequestSegments[i]))
    => FormatError

(* C6: when all segments are digit strings, parse reports the octet-count  *)
(* error whenever there are not exactly 4 segments, otherwise the          *)
(* octet-range error with the 1-based index of the first segment whose     *)
(* value is outside 0..255, and succeeds with the 4 values only when there *)
(* are 4 segments all within 0..255.                                       *)
C6_CountThenFirstRange ==
  (Handled("parse")
     /\ \A i \in 1..Len(RequestSegments) : DigitString(RequestSegments[i]))
    => LET segs == RequestSegments
           val(i) == DecimalValue(segs[i], 0)
           bad == { i \in 1..Len(segs) : val(i) < 0 \/ val(i) > 255 }
       IN /\ Len(segs) # 4 => CountError
          /\ (Len(segs) = 4 /\ bad # {}) =>
               RangeError(CHOOSE i \in bad : \A j \in bad : i <= j)
          /\ (Len(segs) = 4 /\ bad = {}) =>
               /\ response.ok
               /\ response.value = [i \in 1..4 |-> val(i)]
          /\ response.ok => (Len(segs) = 4 /\ bad = {})

\* Two segments are out of range, the second and a later one: the second
\* is reported.
C6_Witness ==
  /\ Handled("parse")
  /\ Len(RequestSegments) = 4
  /\ \A i \in 1..4 : DigitString(RequestSegments[i])
  /\ RequestSegments[2] = <<"2", "5", "6">>
  /\ RequestSegments[4] = <<"2", "5", "6">>
  /\ RangeError(2)

InfoSucceeded == Handled("ip_info") /\ response.status = 200

(* C7: for every prefix p in 0..32 the mask has exactly the top p of 32    *)
(* bits set (0 at p = 0, 0xFFFFFFFF at p = 32) and the wildcard exactly    *)
(* the low 32 - p bits, so mask AND wildcard = 0 and mask OR wildcard =    *)
(* 0xFFFFFFFF.                                                             *)
C7_MaskAndWildcard ==
  InfoSucceeded =>
    LET p == request.prefix
        mask == locals.mask_int
        wildcard == locals.wildcard_int
    IN /\ p \in 0..32
       /\ mask \subseteq 0..31
       /\ Cardinality(mask) = p
       /\ \A i \in mask : i >= 32 - p
       /\ p = 0 => mask = Zero
       /\ p = 32 => mask = AllOnes32
       /\ wildcard \subseteq 0..31
       /\ Cardinality(wildcard) = 32 - p
       /\ \A i \in wildcard : i < 32 - p
       /\ BitAnd(mask, wildcard) = Zero
       /\ BitOr(mask, wildcard) = AllOnes32
       /\ response.body.subnet_mask = int_to_octets(TopBits(p))
       /\ response.body.wildcard_mask = int_to_octets(LowBits(32 - p))

\* A /20 has been answered: mask 255.255.240.0, wildcard 0.0.15.255.
C7_Witness ==
  /\ InfoSucceeded
  /\ request.prefix = 20
  /\ locals.mask_int = 12..31
  /\ response.body.subnet_mask = <<255, 255, 240, 0>>
  /\ response.body.wildcard_mask = <<0, 0, 15, 255>>

(* C8: for every valid address and prefix p, total_hosts is 1 at p = 32    *)
(* and 2^(32-p) otherwise (2^32 at p = 0); usable_hosts is total_hosts - 2 *)
(* for p <= 30 and 0 for p in {31, 32}; host_min and host_max are present  *)
(* exactly when usable_hosts > 0, and then are network + 1 and             *)
(* broadcast - 1.                                                          *)
C8_HostCountsAndRange ==
  InfoSucceeded =>
    LET p == request.prefix
        body == response.body
        network == BitAnd(octets_to_int(body.octets), TopBits(p))
        broadcast == BitOr(network, LowBits(32 - p))
    IN /\ body.total_hosts = (IF p = 32 THEN Wide(1) ELSE Shl(Wide(1), 32 - p))
       /\ p = 0 => body.total_hosts = {32}
       /\ p <= 30 => WAdd(body.usable_hosts, Wide(2)) = body.total_hosts
       /\ p \in {31, 32} => body.usable_hosts = Zero
       /\ body.host_min # None <=> body.usable_hosts # Zero
       /\ body.host_max # None <=> body.usable_hosts # Zero
       /\ locals.network_int = network
       /\ locals.broadcast_int = broadcast
       /\ body.usable_hosts # Zero =>
            /\ body.host_min = int_to_octets(WAdd(network, Wide(1)))
            /\ body.host_max = int_to_octets(WSub(broadcast, Wide(1)))

\* 192.168.1.10/24 has been answered: 256 addresses, 254 usable hosts,
\* 192.168.1.1 to 192.168.1.254.
C8_Witness ==
  /\ InfoSucceeded
  /\ request.prefix = 24
  /\ response.body.octets = <<192, 168, 1, 10>>
  /\ response.body.total_hosts = Wide(256)
  /\ response.body.usable_hosts = Wide(254)
  /\ response.body.host_min = <<192, 168, 1, 1>>
  /\ response.body.host_max = <<192, 168, 1, 254>>

(* C9: partition never enumerates more than 2^24 subnet records: a request *)
(* that would generate more is answered with an error, not a list.         *)
C9_AtMost2Pow24Records ==
  PartitionSucceeded => response.body.total_subnets_created <= 2^24

\* The last n elements of s (all of s when it has fewer).
LastN(s, n) == IF Len(s) <= n THEN s ELSE SubSeq(s, Len(s) - n + 1, Len(s))

\* What a step of the service does to the history.
HistoryStep ==
  IF pc = "pending" /\ request.op = "ip_info" /\ response'.status = 200
  THEN history_storage'
         = LastN(Append(history_storage, EntryOfResponse(response'.body)), 100)
  ELSE history_storage' = history_storage

\* What the history is at every moment.
HistoryState ==
  /\ Len(history_storage) <= 100
  /\ history_storage = LastN(successes, 100)
  /\ Handled("history") =>
       /\ response.status = 200
       /\ response.body.history = Reverse(history_storage)
       /\ response.body.count = Len(history_storage)

(* C10: after any sequence of address-info, partition and history requests *)
(* the history holds the entries of the most recent min(k, 100) successful *)
(* address-info computations in completion order, oldest evicted first: a  *)
(* refused address-info request, a partition request and a history query   *)
(* leave it unchanged, each success appends exactly one entry, its length  *)
(* never exceeds 100, and the history query returns it most recent first.  *)
C10_History == [](HistoryState) /\ [][HistoryStep]_vars

\* The history is full, entries have been evicted, and a history query has
\* been answered with the 100 most recent entries.
C10_Witness ==
  /\ Handled("history")
  /\ Len(successes) = 102
  /\ Len(history_storage) = 100
  /\ response.body.count = 100
  /\ response.body.history[1] = successes[102]
  /\ response.body.history[100] = successes[3]
  /\ successes[1].timestamp # successes[3].timestamp

============================================================================
